---------------------------- MODULE Spec2Model ----------------------------
(***************************************************************************)
(* A model of smurfify.py: the lexicon, the inflector (apply_inflection),  *)
(* the word transformer (smurfify_base, smurfify_word) and the line        *)
(* transformer (smurfify_line).                                            *)
(*                                                                         *)
(* A Python str is a sequence of characters, a character a one-character   *)
(* string; "QUOTE" stands for the double quote, "BACKTICK" for the         *)
(* backtick, "TAB" for the tabulator and "U+1F600" for the one code point  *)
(* of an emoji.  A value of                                                *)
(* random.random() is given in hundredths: the draw r stands for a value   *)
(* in [r/100, (r+1)/100), so random.random() < 0.5 is r < 50.              *)
(***************************************************************************)
EXTENDS Integers, Sequences, FiniteSets, TLC

\* ------------------------------------------------------------ characters

Lowers ==
    << "a","b","c","d","e","f","g","h","i","j","k","l","m",
       "n","o","p","q","r","s","t","u","v","w","x","y","z" >>

Uppers ==
    << "A","B","C","D","E","F","G","H","I","J","K","L","M",
       "N","O","P","Q","R","S","T","U","V","W","X","Y","Z" >>

LowerSet == { Lowers[k] : k \in DOMAIN Lowers }

UpperSet == { Uppers[k] : k \in DOMAIN Uppers }

DigitSet == { "0","1","2","3","4","5","6","7","8","9" }

\* \w of the regular expressions: letters, digits and the underscore.
WordChar == LowerSet \cup UpperSet \cup DigitSet \cup { "_" }

\* [\w\-] of lines 120 and 145.
BaseChar == WordChar \cup { "-" }

\* The punctuation class of line 120: . , ! ? ; : ' and the double quote and backtick.
PunctChar == { ".", ",", "!", "?", ";", ":", "'", "QUOTE", "BACKTICK" }

\* What str.split() splits on.
SpaceChar == { " ", "TAB" }

LowerOf == [ c \in UpperSet |-> Lowers[CHOOSE k \in DOMAIN Uppers : Uppers[k] = c] ]

UpperOf == [ c \in LowerSet |-> Uppers[CHOOSE k \in DOMAIN Lowers : Lowers[k] = c] ]

char_lower(c) == IF c \in UpperSet THEN LowerOf[c] ELSE c

char_upper(c) == IF c \in LowerSet THEN UpperOf[c] ELSE c

\* ------------------------------------------------------------ str methods

\* str.lower()
lower(s) == [ k \in DOMAIN s |-> char_lower(s[k]) ]

\* str.upper()
upper(s) == [ k \in DOMAIN s |-> char_upper(s[k]) ]

\* str.capitalize(): the first character upper-cased, the rest lower-cased.
capitalize(s) == [ k \in DOMAIN s |-> IF k = 1 THEN char_upper(s[k]) ELSE char_lower(s[k]) ]

\* str.endswith(suffix)
endswith(s, suffix) ==
    /\ Len(s) >= Len(suffix)
    /\ SubSeq(s, Len(s) - Len(suffix) + 1, Len(s)) = suffix

\* str.startswith(prefix)
startswith(s, prefix) ==
    /\ Len(s) >= Len(prefix)
    /\ SubSeq(s, 1, Len(prefix)) = prefix

IsCased(c) == c \in LowerSet \cup UpperSet

\* str.isupper(): at least one cased character, and no cased character is lower case.
isupper(s) ==
    /\ \E k \in DOMAIN s : s[k] \in UpperSet
    /\ \A k \in DOMAIN s : s[k] \notin LowerSet

\* str.istitle(): at least one cased character, an upper-case character only after
\* an uncased one (or first), a lower-case character only after a cased one.
istitle(s) ==
    /\ \E k \in DOMAIN s : IsCased(s[k])
    /\ \A k \in DOMAIN s :
          /\ s[k] \in UpperSet => (k = 1 \/ ~IsCased(s[k - 1]))
          /\ s[k] \in LowerSet => (k > 1 /\ IsCased(s[k - 1]))

\* str.isalpha(): not empty, every character a letter.
isalpha(s) ==
    /\ Len(s) > 0
    /\ \A k \in DOMAIN s : IsCased(s[k])

\* str.split(sep) for a one-character separator: the pieces between the separators,
\* empty pieces kept.
split_on(s, sep) ==
    LET seps == { k \in DOMAIN s : s[k] = sep }
        n == Cardinality(seps)
        \* The place of the j-th separator, 0 before the first and Len(s)+1 after the last.
        cut(j) == IF j = 0 THEN 0
                  ELSE IF j = n + 1 THEN Len(s) + 1
                  ELSE CHOOSE k \in seps : Cardinality({ m \in seps : m <= k }) = j
    IN  [ j \in 1..(n + 1) |-> SubSeq(s, cut(j - 1) + 1, cut(j) - 1) ]

RECURSIVE join(_, _)
\* sep.join(parts)
join(parts, sep) ==
    IF Len(parts) = 0 THEN << >>
    ELSE IF Len(parts) = 1 THEN parts[1]
    ELSE parts[1] \o sep \o join(Tail(parts), sep)

\* str.split(): the maximal runs of non-whitespace characters.
split(s) ==
    LET starts == { k \in DOMAIN s :
                      s[k] \notin SpaceChar /\ (k = 1 \/ s[k - 1] \in SpaceChar) }
        ends == { k \in DOMAIN s :
                    s[k] \notin SpaceChar /\ (k = Len(s) \/ s[k + 1] \in SpaceChar) }
        \* The j-th smallest element of S.
        nth(S, j) == CHOOSE k \in S : Cardinality({ m \in S : m <= k }) = j
    IN  [ j \in 1..Cardinality(starts) |-> SubSeq(s, nth(starts, j), nth(ends, j)) ]

\* re.sub with the pattern [^\w\-] and the empty replacement, lines 145-146
strip_nonword(s) == SelectSeq(s, LAMBDA c : c \in BaseChar)

\* ------------------------------------------------------------ configuration

\* CHAOS_CHANCE = 0.05, in hundredths.
CHAOS_CHANCE == 5

VERBS ==
    { <<"a","s","k">>, <<"b","e","c","o","m","e">>, <<"b","e","l","i","e","v","e">>,
      <<"b","r","e","a","k">>, <<"b","r","i","n","g">>, <<"b","u","i","l","d">>, <<"c","a","l","l">>,
      <<"c","a","r","r","y">>, <<"c","l","o","n","e">>, <<"c","l","o","s","e">>, <<"c","o","m","e">>,
      <<"c","o","m","p","i","l","e">>, <<"c","o","n","f","i","g","u","r","e">>, <<"c","o","p","y">>,
      <<"c","r","e","a","t","e">>, <<"c","r","y">>, <<"d","a","n","c","e">>, <<"d","e","b","u","g">>,
      <<"d","e","l","e","t","e">>, <<"d","e","p","l","o","y">>, <<"d","r","e","a","m">>,
      <<"d","r","i","n","k">>, <<"e","a","t">>, <<"e","n","t","e","r","t","a","i","n">>,
      <<"f","i","g","h","t">>, <<"f","i","n","d">>, <<"f","i","x">>, <<"f","o","l","l","o","w">>,
      <<"g","e","t">>, <<"g","i","v","e">>, <<"h","a","t","e">>, <<"h","e","l","p">>,
      <<"h","o","p","e">>, <<"i","n","s","t","a","l","l">>, <<"k","n","o","w">>,
      <<"l","a","u","g","h">>, <<"l","e","a","r","n">>, <<"l","e","a","v","e">>, <<"l","i","v","e">>,
      <<"l","o","o","k">>, <<"l","o","v","e">>, <<"m","a","k","e">>, <<"m","o","v","e">>,
      <<"n","e","e","d">>, <<"o","p","e","n">>, <<"p","l","a","n">>, <<"p","l","a","y">>,
      <<"p","u","b","l","i","s","h">>, <<"p","u","l","l">>, <<"p","u","s","h">>, <<"p","u","t">>,
      <<"r","e","a","d">>, <<"r","e","b","o","o","t">>, <<"r","e","m","e","m","b","e","r">>,
      <<"r","e","m","o","v","e">>, <<"r","u","n">>, <<"s","a","v","e">>, <<"s","e","e">>,
      <<"s","h","o","u","t">>, <<"s","h","o","w">>, <<"s","i","n","g">>, <<"s","i","t">>,
      <<"s","l","e","e","p">>, <<"s","m","i","l","e">>, <<"s","m","u","r","f">>,
      <<"s","p","e","a","k">>, <<"s","t","a","n","d">>, <<"s","t","a","r","t">>, <<"s","t","o","p">>,
      <<"s","u","b","m","i","t">>, <<"s","y","n","c">>, <<"t","a","k","e">>, <<"t","e","l","l">>,
      <<"t","e","s","t">>, <<"t","r","y">>, <<"u","p","d","a","t","e">>, <<"u","s","e">>,
      <<"w","a","l","k">>, <<"w","a","n","t">>, <<"w","h","i","s","p","e","r">>, <<"w","o","r","k">>,
      <<"w","r","i","t","e">> }

NOUNS ==
    { <<"a","i","r">>, <<"b","o","o","k">>, <<"b","u","g">>, <<"c","h","i","l","d">>,
      <<"c","i","t","y">>, <<"c","l","o","u","d">>, <<"c","o","d","e">>,
      <<"c","o","m","m","a","n","d">>, <<"c","o","n","t","a","i","n","e","r">>, <<"d","a","y">>,
      <<"d","e","v","i","c","e">>, <<"e","a","r","t","h">>, <<"e","y","e">>,
      <<"f","a","m","i","l","y">>, <<"f","e","a","t","u","r","e">>,
      <<"f","e","e","d","b","a","c","k">>, <<"f","i","l","e">>, <<"f","i","r","e">>,
      <<"f","o","l","d","e","r">>, <<"f","r","i","e","n","d">>, <<"h","a","n","d">>,
      <<"h","o","u","s","e">>, <<"i","d","e","a">>, <<"i","n","p","u","t">>, <<"i","s","s","u","e">>,
      <<"j","u","s","t","i","c","e">>, <<"l","a","n","g","u","a","g","e">>,
      <<"l","e","t","t","e","r">>, <<"l","i","f","e">>, <<"l","i","n","e">>, <<"l","i","n","u","x">>,
      <<"m","a","c">>, <<"m","a","n">>, <<"m","o","d","u","l","e">>, <<"n","a","m","e">>,
      <<"n","i","g","h","t">>, <<"o","r","d","e","r">>, <<"o","u","t","p","u","t">>,
      <<"p","a","c","k","a","g","e">>, <<"p","i","p","e","l","i","n","e">>, <<"p","l","a","c","e">>,
      <<"p","l","a","n">>, <<"p","l","a","t","f","o","r","m">>, <<"p","r","o","g","r","a","m">>,
      <<"p","r","o","j","e","c","t">>, <<"p","r","o","p","o","s","a","l">>, <<"r","e","p","o">>,
      <<"r","i","v","e","r">>, <<"r","o","a","d">>, <<"s","c","h","o","o","l">>,
      <<"s","c","r","i","p","t">>, <<"s","e","r","v","i","c","e">>, <<"s","o","n","g">>,
      <<"s","t","o","r","y">>, <<"t","a","b","l","e">>, <<"t","a","s","k">>, <<"t","h","i","n","g">>,
      <<"t","i","m","e">>, <<"t","i","m","e","l","i","n","e">>, <<"t","o","o","l">>,
      <<"t","r","u","t","h">>, <<"t","u","r","t","l","e">>, <<"u","n","i","o","n">>,
      <<"v","i","l","l","a","g","e">>, <<"v","o","i","c","e">>, <<"w","a","t","e","r">>,
      <<"w","i","n","d","o","w","s">>, <<"w","o","m","a","n">>, <<"w","o","r","k">>,
      <<"w","o","r","k","f","l","o","w">>, <<"w","o","r","l","d">>, <<"y","e","a","r">> }

ADJECTIVES ==
    { <<"a","g","i","l","e">>, <<"a","w","e","s","o","m","e">>, <<"b","a","d">>, <<"b","i","g">>,
      <<"b","r","i","g","h","t">>, <<"b","r","o","k","e","n">>, <<"c","l","e","v","e","r">>,
      <<"c","o","l","d">>, <<"c","o","m","p","l","e","x">>, <<"c","o","n","f","u","s","i","n","g">>,
      <<"c","o","o","l">>, <<"d","a","r","k">>, <<"d","u","m","b">>, <<"e","a","r","l","y">>,
      <<"e","a","s","y">>, <<"f","a","s","t">>, <<"g","o","o","d">>, <<"h","a","p","p","y">>,
      <<"h","a","r","d">>, <<"h","e","l","p","f","u","l">>, <<"l","a","t","e">>, <<"l","o","n","g">>,
      <<"l","o","u","d">>, <<"n","e","w">>, <<"n","i","c","e">>, <<"o","l","d">>,
      <<"q","u","i","c","k">>, <<"q","u","i","e","t">>, <<"r","e","s","p","o","n","s","i","v","e">>,
      <<"s","a","d">>, <<"s","h","o","r","t">>, <<"s","i","m","p","l","e">>, <<"s","l","o","w">>,
      <<"s","m","a","l","l">>, <<"s","m","a","r","t">>, <<"s","t","r","o","n","g">>,
      <<"u","g","l","y">>, <<"u","s","e","f","u","l">>, <<"w","a","r","m">>, <<"w","e","a","k">>,
      <<"w","e","i","r","d">>, <<"y","o","u","n","g">> }

EXCLAIMS ==
    { <<"c","r","a","p">>, <<"d","a","m","n">>, <<"d","a","r","n">>, <<"h","e","c","k">>,
      <<"h","e","l","l">>, <<"h","e","y">>, <<"h","u","h">>, <<"n","i","c","e">>, <<"n","o","p","e">>,
      <<"o","o","p","s">>, <<"u","g","h">>, <<"w","h","o","a">>, <<"w","o","o">>, <<"w","o","o","t">>,
      <<"w","o","w">>, <<"y","a","y">>, <<"y","e","a","h">> }

CONNECTORS ==
    { <<",">>, <<"a","n","d">> }

\* ------------------------------------------------------------ core logic

Smurf == << "s","m","u","r","f" >>

Smurfy == << "s","m","u","r","f","y" >>

\* The literal "Smurf!" of line 109.
SmurfBang == << "S","m","u","r","f","!" >>

Some == << "s","o","m","e" >>

Space == << " " >>

Hyphen == << "-" >>

VARIABLES
    chaos,      \* the module global CHAOS_CHANCE, in hundredths
    line,       \* smurfify_line's argument, until it is split
    words,      \* line.split()
    result,     \* the tokens emitted so far
    i,          \* the scan index
    pc,         \* where the call is
    rule,       \* the branch the last loop iteration took
    output,     \* smurfify_line's return value
    word,       \* the argument of smurfify_word, or apply_inflection's original
    stem,       \* apply_inflection's replacement
    draws,      \* the values of random.random() one smurfify_word call was given
    wout        \* the value smurfify_word or apply_inflection returned

vars == << chaos, line, words, result, i, pc, rule, output, word, stem, draws, wout >>

\* apply_inflection with the plural "s" appended after a double "s" too.
apply_inflection_plural(replacement, original) ==
    LET low == lower(original)
        suffixed ==
            IF endswith(low, << "i","n","g" >>) THEN replacement \o << "i","n","g" >>
            ELSE IF endswith(low, << "e","d" >>) THEN replacement \o << "e","d" >>
            ELSE IF endswith(low, << "s" >>) THEN replacement \o << "s" >>
            ELSE replacement
    IN  IF isupper(original) THEN upper(suffixed)
        ELSE IF istitle(original) THEN capitalize(suffixed)
        ELSE suffixed

\* apply_inflection, lines 81-96.
apply_inflection(replacement, original) ==
    LET low == lower(original)
        suffixed ==
            IF endswith(low, << "i","n","g" >>) THEN replacement \o << "i","n","g" >>
            ELSE IF endswith(low, << "e","d" >>) THEN replacement \o << "e","d" >>
            ELSE IF endswith(low, << "s" >>) /\ ~endswith(low, << "s","s" >>)
                 THEN replacement \o << "s" >>
            ELSE replacement
    IN  IF isupper(original) THEN upper(suffixed)
        ELSE IF istitle(original) THEN capitalize(suffixed)
        ELSE suffixed

\* smurfify_base with the chaos fallback open to every part, alphabetic or not.
smurfify_base_any(base, r) ==
    LET low == lower(base)
    IN  IF low \in VERBS \/ low \in NOUNS THEN apply_inflection(Smurf, base)
        ELSE IF low \in ADJECTIVES THEN apply_inflection(Smurfy, base)
        ELSE IF low \in EXCLAIMS THEN SmurfBang
        ELSE IF r < chaos THEN apply_inflection(Smurf, base)
        ELSE base

\* smurfify_base with the chaos comparison made inclusive.
smurfify_base_inclusive(base, r) ==
    LET low == lower(base)
    IN  IF low \in VERBS \/ low \in NOUNS THEN apply_inflection(Smurf, base)
        ELSE IF low \in ADJECTIVES THEN apply_inflection(Smurfy, base)
        ELSE IF low \in EXCLAIMS THEN SmurfBang
        ELSE IF isalpha(base) /\ r <= chaos THEN apply_inflection(Smurf, base)
        ELSE base

\* smurfify_base with EXCLAIMS looked up before ADJECTIVES.
smurfify_base_exclaim_first(base, r) ==
    LET low == lower(base)
    IN  IF low \in VERBS \/ low \in NOUNS THEN apply_inflection(Smurf, base)
        ELSE IF low \in EXCLAIMS THEN SmurfBang
        ELSE IF low \in ADJECTIVES THEN apply_inflection(Smurfy, base)
        ELSE IF isalpha(base) /\ r < chaos THEN apply_inflection(Smurf, base)
        ELSE base

\* smurfify_base, lines 98-113; r is the value random.random() returns if it is called.
smurfify_base(base, r) ==
    LET low == lower(base)
    IN  IF low \in VERBS \/ low \in NOUNS THEN apply_inflection(Smurf, base)
        ELSE IF low \in ADJECTIVES THEN apply_inflection(Smurfy, base)
        ELSE IF low \in EXCLAIMS THEN SmurfBang
        ELSE IF isalpha(base) /\ r < chaos THEN apply_inflection(Smurf, base)
        ELSE base

\* The length of the longest prefix of word made of [\w\-] characters.
BaseLen(w) ==
    CHOOSE n \in 0..Len(w) :
        /\ \A k \in 1..n : w[k] \in BaseChar
        /\ (n = Len(w) \/ w[n + 1] \notin BaseChar)

\* re.match of line 120, a base of [\w\-]+ and then punctuation: the base is greedy and
\* no character is both a base and a punctuation character, so the split is unique.
matches(w) ==
    /\ BaseLen(w) > 0
    /\ \A k \in (BaseLen(w) + 1)..Len(w) : w[k] \in PunctChar

match_base(w) == SubSeq(w, 1, BaseLen(w))

match_punct(w) == SubSeq(w, BaseLen(w) + 1, Len(w))

\* The number of random.random() values a call of smurfify_word may consume: one
\* for each hyphen-separated part.
NumParts(w) == IF matches(w) THEN Len(split_on(match_base(w), "-")) ELSE 0

\* smurfify_word with a punctuation character that repeats the end of the joined
\* parts dropped.
smurfify_word_dedup(w, rs) ==
    IF ~matches(w) THEN w
    ELSE LET parts == split_on(match_base(w), "-")
             punct == match_punct(w)
             joined == join([ k \in DOMAIN parts |-> smurfify_base(parts[k], rs[k]) ], Hyphen)
         IN  IF Len(punct) > 0 /\ Len(joined) > 0 /\ joined[Len(joined)] = punct[1]
             THEN joined \o Tail(punct)
             ELSE joined \o punct

\* smurfify_word, lines 115-125; rs[k] is the draw of the k-th part.  base.split('-')
\* and punct are bound as values, so that they are computed once.
smurfify_word(w, rs) ==
    IF ~matches(w) THEN w
    ELSE LET smurfed_parts(parts) == [ k \in DOMAIN parts |-> smurfify_base(parts[k], rs[k]) ]
         IN  CHOOSE out \in
                 { join(smurfed_parts(parts), Hyphen) \o punct :
                     parts \in { split_on(match_base(w), "-") }, punct \in { match_punct(w) } } :
                 TRUE

\* is_smurfed, lines 127-131.
is_smurfed(w) == startswith(lower(w), Smurf)

\* The values random.random() can return, in hundredths.
DrawSet == { 0, CHAOS_CHANCE - 1, CHAOS_CHANCE, 49, 50, 99 }

\* The draws one call smurfify_word(w) can be given.
Draws(w) == [ 1..NumParts(w) -> DrawSet ]

\* The values one call smurfify_word(w) can return.
smurfify_word_results(w) == { smurfify_word(w, rs) : rs \in Draws(w) }

\* ------------------------------------------------------------ smurfify_line

\* words[k] of the source, which counts from 0.
W(k) == words[k + 1]

\* result[k] of the source, which counts from 0.
R(k) == result[k + 1]

\* The condition of lines 143-146: the "verb some noun" pattern at index k.
IdiomAt(k) ==
    /\ k + 2 < Len(words)
    /\ lower(W(k + 1)) = Some
    /\ strip_nonword(lower(W(k))) \in VERBS
    /\ strip_nonword(lower(W(k + 2))) \in NOUNS

\* The condition of line 156: a connector between two tokens at index k.
ConnectorAt(k) ==
    /\ k + 2 < Len(words)
    /\ lower(W(k + 1)) \in CONNECTORS

\* idiom_emit with both halves transformed.
idiom_emit_both(verb, noun, coin, s) ==
    IF coin < 50
    THEN << s, Some, smurfify_word(noun, [ k \in 1..NumParts(noun) |-> 0 ]) >>
    ELSE << smurfify_word(verb, [ k \in 1..NumParts(verb) |-> 0 ]), Some, s >>

\* Lines 148-151: the three tokens the idiom rule emits; s is what the one
\* smurfify_word call it makes returns.
idiom_emit(verb, noun, coin, s) ==
    IF coin < 50
    THEN << s, Some, noun >>
    ELSE << verb, Some, s >>

\* collision_emit without the connector.
collision_emit_pair(w1, conn, w2, s1, s2, coin) ==
    IF coin < 50
    THEN << s1, w2 >>
    ELSE << w1, s2 >>

\* Lines 160-163: the three tokens a collision emits.
collision_emit(w1, conn, w2, s1, s2, coin) ==
    IF coin < 50
    THEN << s1, conn, w2 >>
    ELSE << w1, conn, s2 >>

\* Lines 138-140: the line is split and the scan starts.  The function does not read
\* line again, and the model forgets it.
Call ==
    /\ pc = "call"
    /\ words' = split(line)
    /\ line' = << >>
    /\ result' = << >>
    /\ i' = 0
    /\ rule' = "none"
    /\ pc' = "loop"
    /\ UNCHANGED << chaos, output, word, stem, draws, wout >>

\* Lines 143-153: the idiom rule.
VerbSomeNoun ==
    /\ pc = "loop"
    /\ i < Len(words)
    /\ IdiomAt(i)
    /\ \E coin \in DrawSet :
          \E s \in smurfify_word_results(IF coin < 50 THEN W(i) ELSE W(i + 2)) :
              result' = result \o idiom_emit(W(i), W(i + 2), coin, s)
    /\ i' = i + 3
    /\ rule' = "idiom"
    /\ UNCHANGED << chaos, line, words, pc, output, word, stem, draws, wout >>

\* Lines 156-165: a connector whose neighbours both come out smurfed.
Collision ==
    /\ pc = "loop"
    /\ i < Len(words)
    /\ ~IdiomAt(i)
    /\ ConnectorAt(i)
    /\ \E s1 \in smurfify_word_results(W(i)), s2 \in smurfify_word_results(W(i + 2)) :
          /\ is_smurfed(s1) /\ is_smurfed(s2)
          /\ \E coin \in DrawSet :
                result' = result \o collision_emit(W(i), W(i + 1), W(i + 2), s1, s2, coin)
    /\ i' = i + 3
    /\ rule' = "collision"
    /\ UNCHANGED << chaos, line, words, pc, output, word, stem, draws, wout >>

\* FallThrough consuming the whole window, as a collision does.
FallThroughWindow ==
    /\ pc = "loop"
    /\ i < Len(words)
    /\ ~IdiomAt(i)
    /\ ConnectorAt(i)
    /\ \E s1 \in smurfify_word_results(W(i)), s2 \in smurfify_word_results(W(i + 2)) :
          /\ ~(is_smurfed(s1) /\ is_smurfed(s2))
          /\ result' = result \o << s1, W(i + 1), s2 >>
    /\ i' = i + 3
    /\ rule' = "fallthrough"
    /\ UNCHANGED << chaos, line, words, pc, output, word, stem, draws, wout >>

\* Lines 156-159 and 168-169: a connector without a collision; the word is
\* transformed again, with draws of its own.
FallThrough ==
    /\ pc = "loop"
    /\ i < Len(words)
    /\ ~IdiomAt(i)
    /\ ConnectorAt(i)
    /\ \E s1 \in smurfify_word_results(W(i)), s2 \in smurfify_word_results(W(i + 2)) :
          ~(is_smurfed(s1) /\ is_smurfed(s2))
    /\ \E s \in smurfify_word_results(W(i)) :
          result' = Append(result, s)
    /\ i' = i + 1
    /\ rule' = "fallthrough"
    /\ UNCHANGED << chaos, line, words, pc, output, word, stem, draws, wout >>

\* Lines 168-169: neither pattern.
NormalWord ==
    /\ pc = "loop"
    /\ i < Len(words)
    /\ ~IdiomAt(i)
    /\ ~ConnectorAt(i)
    /\ \E s \in smurfify_word_results(W(i)) :
          result' = Append(result, s)
    /\ i' = i + 1
    /\ rule' = "normal"
    /\ UNCHANGED << chaos, line, words, pc, output, word, stem, draws, wout >>

\* Lines 141 and 170: the loop ends and the tokens are joined.
Return ==
    /\ pc = "loop"
    /\ ~(i < Len(words))
    /\ output' = join(result, Space)
    /\ pc' = "done"
    /\ UNCHANGED << chaos, line, words, result, i, rule, word, stem, draws, wout >>

\* ------------------------------------------------------------ inputs

\* The longest line, in tokens.
MaxTokens == 3

\* The settings of CHAOS_CHANCE: never, the default, always.
ChaosSettings == { 0, CHAOS_CHANCE, 100 }

Fix == << "f","i","x" >>

Bug == << "b","u","g" >>

And == << "a","n","d" >>

Comma == << "," >>

ParenFix == << "(","f","i","x" >>

Xyz == << "x","y","z" >>

Num123 == << "1","2","3" >>

Emoji == << "U+1F600" >>

LineTokens == { Fix, Some, Bug, And, Comma, ParenFix, Smurf, Xyz, Num123 }

\* The token sequences of at most n tokens.
TokenSeqs(n) == UNION { [ 1..m -> LineTokens ] : m \in 0..n }

\* The whitespace of a line: single spaces, or a tab before, two spaces between and
\* a space after the tokens.
Layouts == { "single", "ragged" }

layout_line(toks, lay) ==
    IF lay = "single" THEN join(toks, Space)
    ELSE << "TAB" >> \o join(toks, << " ", " " >>) \o Space

Init ==
    /\ chaos \in ChaosSettings
    /\ \E toks \in TokenSeqs(MaxTokens), lay \in Layouts : line = layout_line(toks, lay)
    /\ words = << >>
    /\ result = << >>
    /\ i = 0
    /\ pc = "call"
    /\ rule = "none"
    /\ output = << >>
    /\ word = << >>
    /\ stem = << >>
    /\ draws = << >>
    /\ wout = << >>

Next ==
    \/ Call
    \/ VerbSomeNoun
    \/ Collision
    \/ FallThrough
    \/ NormalWord
    \/ Return

Spec == Init /\ [][Next]_vars

\* ------------------------------------------------------------ single words

\* The longest word of WordAlphabet, in characters.
MaxWordLen == 3

\* A lower-case and an upper-case letter, the letters of the suffixes "s" and "ed", a
\* digit, the hyphen, a punctuation character and a character of neither class.
WordAlphabet == { "s", "e", "d", "S", "1", "-", "!", "U+1F600" }

FixUpper == << "F","I","X" >>

FixTitle == << "F","i","x" >>

Fixing == << "f","i","x","i","n","g" >>

Fixed == << "f","i","x","e","d" >>

FIXED == << "F","I","X","E","D" >>

Running == << "R","u","n","n","i","n","g" >>

Bugs == << "b","u","g","s" >>

Broken == << "b","r","o","k","e","n" >>

BROKEN == << "B","R","O","K","E","N" >>

Nice == << "n","i","c","e" >>

NiceTitle == << "N","i","c","e" >>

NICE == << "N","I","C","E" >>

Wow == << "w","o","w" >>

WowBang == << "w","o","w","!" >>

WOW == << "W","O","W" >>

Oops == << "o","o","p","s" >>

Need == << "n","e","e","d" >>

Sing == << "s","i","n","g" >>

Thing == << "t","h","i","n","g" >>

Windows == << "w","i","n","d","o","w","s" >>

Confusing == << "c","o","n","f","u","s","i","n","g" >>

SmurfTitle == << "S","m","u","r","f" >>

SmurfMixed == << "s","M","u","r","f" >>

Glass == << "g","l","a","s","s" >>

FixBug == << "f","i","x","-","b","u","g" >>

NiceWow == << "n","i","c","e","-","w","o","w" >>

XyzFix == << "x","y","z","-","f","i","x" >>

FixComma == << "f","i","x","," >>

FixBangs == << "F","i","x","!","?" >>

X1 == << "x","1" >>

SnakeCase == << "F","i","x","_","U","p" >>

CuratedWords ==
    { Fix, Bug, Some, And, Comma, ParenFix, Smurf, Xyz, Num123, Emoji,
      FixUpper, FixTitle, Fixing, Fixed, FIXED, Running, Bugs, Broken,
      BROKEN, Nice, NiceTitle, NICE, Wow, WowBang, WOW, Oops,
      Need, Sing, Thing, Windows, Confusing, SmurfTitle, SmurfMixed, Glass,
      FixBug, NiceWow, XyzFix, FixComma, FixBangs, X1, SnakeCase }

\* The words of at most n characters of WordAlphabet.
SmallWords(n) == UNION { [ 1..m -> WordAlphabet ] : m \in 1..n }

WordInputs == SmallWords(MaxWordLen) \cup CuratedWords

\* One call smurfify_word(word).
TransformWord ==
    /\ pc = "word"
    /\ \E rs \in Draws(word) :
          /\ draws' = rs
          /\ wout' = smurfify_word(word, rs)
    /\ pc' = "transformed"
    /\ UNCHANGED << chaos, line, words, result, i, rule, output, word, stem >>

\* One call smurfify_base(word), of a hyphen-separated part: word characters only.
Base ==
    /\ pc = "word"
    /\ \A k \in DOMAIN word : word[k] \in WordChar
    /\ \E r \in DrawSet :
          /\ draws' = << r >>
          /\ wout' = smurfify_base(word, r)
    /\ pc' = "based"
    /\ UNCHANGED << chaos, line, words, result, i, rule, output, word, stem >>

\* One call apply_inflection(stem, word), with one of the two stems the callers pass.
Inflect ==
    /\ pc = "word"
    /\ \A k \in DOMAIN word : word[k] \in WordChar
    /\ \E st \in { Smurf, Smurfy } :
          /\ stem' = st
          /\ wout' = apply_inflection(st, word)
    /\ pc' = "inflected"
    /\ UNCHANGED << chaos, line, words, result, i, rule, output, word, draws >>

InitWord ==
    /\ chaos \in ChaosSettings
    /\ word \in WordInputs
    /\ pc = "word"
    /\ line = << >>
    /\ words = << >>
    /\ result = << >>
    /\ i = 0
    /\ rule = "none"
    /\ output = << >>
    /\ stem = << >>
    /\ draws = << >>
    /\ wout = << >>

NextWord ==
    \/ TransformWord
    \/ Base
    \/ Inflect

SpecWord == InitWord /\ [][NextWord]_vars

\* ------------------------------------------------------------ chained connectors

\* The length of the lines of SpecChain, in tokens.
MaxChain == 5

ChainTokens == { Fix, Some, Bug, And }

InitChain ==
    /\ chaos \in ChaosSettings
    /\ \E toks \in [ 1..MaxChain -> ChainTokens ] : line = layout_line(toks, "single")
    /\ words = << >>
    /\ result = << >>
    /\ i = 0
    /\ pc = "call"
    /\ rule = "none"
    /\ output = << >>
    /\ word = << >>
    /\ stem = << >>
    /\ draws = << >>
    /\ wout = << >>

SpecChain == InitChain /\ [][Next]_vars

\* ------------------------------------------------------------ the idiom rule

\* The token at index k came out different from the token that went in.
Changed(k) == R(k) # W(k)

\* The Word Transformer returns t as it is: t has not the shape of line 120, or its
\* base is "smurf", "Smurf" or "SMURF", which inflects to itself.
SelfMapped(t) ==
    \/ \A n \in 1..Len(t) :
          \/ \E k \in 1..n : t[k] \notin BaseChar
          \/ \E k \in (n + 1)..Len(t) : t[k] \notin PunctChar
    \/ strip_nonword(t) \in { Smurf, SmurfTitle, upper(Smurf) }

FixSomeBug == << Fix, Some, Bug >>

\* C1 as stated: after every step of the idiom rule exactly one of the positions i
\* and i+2 differs from its original surface form and the other is the original.
C1_ExactlyOneChanged ==
    rule = "idiom" => (Changed(i - 3) # Changed(i - 1))

\* C1, amended: after every step of the idiom rule never both of the positions i and
\* i+2 differ from their original surface form, and neither differs only
\* when one of the two tokens is one the Word Transformer returns as it is (it has
\* not the base+punctuation shape, or its base is "smurf" in a casing that inflects
\* to itself); "fix some bug" yields only "smurf some bug" or "fix some smurf".
C1_AtMostOneChanged ==
    /\ rule = "idiom" =>
          /\ ~(Changed(i - 3) /\ Changed(i - 1))
          /\ (~Changed(i - 3) /\ ~Changed(i - 1)) => (SelfMapped(W(i - 3)) \/ SelfMapped(W(i - 1)))
    /\ (pc = "done" /\ words = FixSomeBug) =>
          output \in { join(<< Smurf, Some, Bug >>, Space), join(<< Fix, Some, Smurf >>, Space) }

\* "fix some bug" has come out as "fix some smurf".
C1_Witness ==
    /\ pc = "done"
    /\ rule = "idiom"
    /\ words = FixSomeBug
    /\ output = << "f","i","x"," ","s","o","m","e"," ","s","m","u","r","f" >>

\* "fix some bug" has come out as "smurf some bug": the other branch of the draw.
C1_WitnessVerb ==
    /\ pc = "done"
    /\ words = FixSomeBug
    /\ output = << "s","m","u","r","f"," ","s","o","m","e"," ","b","u","g" >>

\* ------------------------------------------------------------ pass-through

\* The hyphen-separated parts of the longest [\w\-] prefix of t.
PartsOf(t) ==
    LET n == CHOOSE m \in 0..Len(t) :
                 /\ \A k \in 1..m : t[k] \in BaseChar
                 /\ \A k \in (m + 1)..Len(t) : k = m + 1 => t[k] \notin BaseChar
    IN  split_on(SubSeq(t, 1, n), "-")

Lexicon == VERBS \cup NOUNS \cup ADJECTIVES \cup EXCLAIMS

\* t has not the base+punctuation shape, or none of its parts is alphabetic or listed.
PassesThrough(t) ==
    \/ \A n \in 1..Len(t) :
          \/ \E k \in 1..n : t[k] \notin BaseChar
          \/ \E k \in (n + 1)..Len(t) : t[k] \notin PunctChar
    \/ LET parts == PartsOf(t)
       IN  \A k \in DOMAIN parts :
               /\ \E j \in DOMAIN parts[k] : ~IsCased(parts[k][j])
               /\ lower(parts[k]) \notin Lexicon

\* t is made of punctuation characters only.
PunctuationOnly(t) == \A k \in DOMAIN t : t[k] \in PunctChar

\* C7: at every chaos setting and for every draw, a token that has not the
\* base+punctuation shape, or whose parts are all non-alphabetic and unlisted, is
\* emitted as it is, whichever rule consumes it; the empty line gives the empty
\* string, and a line of punctuation tokens gives the same tokens in the same order.
C7_PassThrough ==
    /\ pc \in { "loop", "done" } =>
          \A k \in DOMAIN result : PassesThrough(words[k]) => result[k] = words[k]
    /\ (pc = "done" /\ words = << >>) => output = << >>
    /\ (pc = "done" /\ \A k \in DOMAIN words : PunctuationOnly(words[k])) =>
          /\ result = words
          /\ output = join(words, Space)

\* At chaos chance 1.0 a fall-through has consumed "(fix", a normal step the comma and
\* another "123", and all three came out as they went in.
C7_Witness ==
    /\ pc = "done"
    /\ chaos = 100
    /\ words = << ParenFix, Comma, Num123 >>
    /\ result = words

\* ------------------------------------------------------------ the connector rule

\* Whatever the draws, the neighbours of the connector at k + 1 do not both come out
\* starting with "smurf".
NoCollisionAt(k) ==
    \A s1 \in smurfify_word_results(W(k)), s2 \in smurfify_word_results(W(k + 2)) :
        ~(is_smurfed(s1) /\ is_smurfed(s2))

\* C9: a step that finds a connector at i+1 and no collision emits the Word
\* Transformer's result of token i alone and advances i by exactly 1, so the next
\* window starts at the connector; a step of the idiom rule or of a collision
\* emits three tokens and advances i by exactly 3.
C9_FallThroughByOne ==
    [][ (pc = "loop" /\ pc' = "loop") =>
          /\ rule' = "fallthrough" =>
                /\ ConnectorAt(i)
                /\ i' = i + 1
                /\ \E s \in smurfify_word_results(W(i)) : result' = Append(result, s)
          /\ (ConnectorAt(i) /\ ~IdiomAt(i) /\ NoCollisionAt(i)) =>
                (rule' = "fallthrough" /\ i' = i + 1)
          /\ rule' \in { "idiom", "collision" } =>
                (i' = i + 3 /\ Len(result') = Len(result) + 3)
          /\ IdiomAt(i) => (rule' = "idiom" /\ i' = i + 3) ]_vars

\* "xyz and fix": no collision at chaos chance 0, "xyz" is emitted alone and the scan
\* stands at the connector.
C9_Witness ==
    /\ pc = "loop"
    /\ rule = "fallthrough"
    /\ chaos = 0
    /\ words = << Xyz, And, Fix >>
    /\ i = 1
    /\ result = << Xyz >>

\* C2 as stated: in the output no connector token stands between two tokens that both
\* start with "smurf".
C2_NoSmurfAndSmurf ==
    pc = "done" =>
        \A k \in DOMAIN result :
            (1 < k /\ k < Len(result) /\ lower(result[k]) \in CONNECTORS) =>
                ~(is_smurfed(result[k - 1]) /\ is_smurfed(result[k + 1]))

\* ------------------------------------------------------------ the scan

\* The number of maximal runs of non-whitespace characters of s.
CountRuns(s) ==
    Cardinality({ k \in DOMAIN s :
                    s[k] \notin SpaceChar /\ (k = Len(s) \/ s[k + 1] \in SpaceChar) })

C10_Inv ==
    /\ pc \in { "loop", "done" } =>
          /\ Len(result) = i
          /\ 0 <= i /\ i <= Len(words)
    /\ pc = "done" =>
          /\ i = Len(words)
          /\ output = join(result, Space)
          /\ split(output) = result
          /\ CountRuns(output) = Len(words)

C10_Step ==
    /\ (pc = "call" /\ pc' = "loop") => Len(words') = CountRuns(line)
    /\ (pc = "loop" /\ pc' = "loop") =>
          /\ i < Len(words)
          /\ i' \in { i + 1, i + 3 }
          /\ i' = i + 3 => i + 2 < Len(words)
          /\ SubSeq(result', 1, i) = result
          /\ \A k \in (i + 1)..i' :
                result'[k] \in smurfify_word_results(words[k]) \cup { words[k], Some }
    /\ (pc = "loop" /\ pc' = "done") => i = Len(words)

\* C10: whenever the loop condition is evaluated as many tokens are emitted as the
\* scan index i says and 0 <= i <= len(words); a step advances i by 1 or by 3, by 3
\* only when i+2 is an index; the loop ends with i = len(words) exactly, and the
\* output has as many whitespace-delimited tokens as the input, each at the place
\* of the token it comes from, joined by single spaces.
C10_ScanInvariant == []C10_Inv /\ [][C10_Step]_vars

\* "fix and smurf": a collision has consumed the three tokens of the line in one step.
C10_Witness ==
    /\ pc = "done"
    /\ rule = "collision"
    /\ i = 3
    /\ words = << Fix, And, Bug >>
    /\ output = << "f","i","x"," ","a","n","d"," ","s","m","u","r","f" >>

\* ------------------------------------------------------------ the inflector

\* The suffix the original calls for, read off its last characters.
SuffixOf(original) ==
    LET n == Len(original)
        c(k) == IF k >= 1 THEN char_lower(original[k]) ELSE ""
    IN  IF c(n - 2) = "i" /\ c(n - 1) = "n" /\ c(n) = "g" THEN << "i","n","g" >>
        ELSE IF c(n - 1) = "e" /\ c(n) = "d" THEN << "e","d" >>
        ELSE IF c(n) = "s" /\ c(n - 1) # "s" THEN << "s" >>
        ELSE << >>

\* C4: apply_inflection(stem, original) appends exactly one suffix, the first of
\* "ing", "ed", "s" but not "ss" that ends the lowercased original, or none, and then
\* cases the suffixed string: all upper case for an upper-case original, first letter
\* upper and the rest lower for a title-case original, the stem plus suffix as it is
\* otherwise; ("smurf","Running") gives "Smurfing", ("smurf","FIXED") gives "SMURFED",
\* ("smurfy","bugs") gives "smurfys".
C4_Inflection ==
    pc = "inflected" =>
        LET expected == stem \o SuffixOf(word)
        IN  /\ Len(wout) = Len(expected)
            /\ \A k \in DOMAIN expected : char_lower(wout[k]) = expected[k]
            /\ isupper(word) => \A k \in DOMAIN wout : wout[k] \in UpperSet
            /\ (~isupper(word) /\ istitle(word)) =>
                  /\ wout[1] \in UpperSet
                  /\ \A k \in 2..Len(wout) : wout[k] \in LowerSet
            /\ (~isupper(word) /\ ~istitle(word)) => wout = expected
            /\ (stem = Smurf /\ word = Running) => wout = << "S","m","u","r","f","i","n","g" >>
            /\ (stem = Smurf /\ word = FIXED) => wout = << "S","M","U","R","F","E","D" >>
            /\ (stem = Smurfy /\ word = Bugs) => wout = << "s","m","u","r","f","y","s" >>

\* apply_inflection("smurfy", "bugs") has returned "smurfys".
C4_Witness ==
    /\ pc = "inflected"
    /\ stem = Smurfy
    /\ word = Bugs
    /\ wout = << "s","m","u","r","f","y","s" >>

\* ------------------------------------------------------------ the lexicon and chaos

Unclassified(base) ==
    /\ lower(base) \notin VERBS
    /\ lower(base) \notin NOUNS
    /\ lower(base) \notin ADJECTIVES
    /\ lower(base) \notin EXCLAIMS

AllAlpha(base) == Len(base) > 0 /\ \A k \in DOMAIN base : base[k] \in LowerSet \cup UpperSet

\* C5: with chaos chance 1.0 smurfify_base returns the inflected "smurf" stem for
\* every alphabetic sub-word in none of the category sets, whatever the draw; with
\* chaos chance 0.0 it returns every sub-word in none of the sets unchanged; a
\* sub-word in none of the sets that is not alphabetic is unchanged at every setting.
C5_ChaosFallback ==
    (pc = "based" /\ Unclassified(word)) =>
        /\ (chaos = 100 /\ AllAlpha(word)) => wout = apply_inflection(Smurf, word)
        /\ chaos = 0 => wout = word
        /\ ~AllAlpha(word) => wout = word

\* smurfify_base("xyz") at chaos chance 1.0 with the largest draw has returned "smurf".
C5_Witness ==
    /\ pc = "based"
    /\ chaos = 100
    /\ word = Xyz
    /\ draws = << 99 >>
    /\ wout = Smurf

\* C8: smurfify_base looks the lowercased sub-word up in VERBS or NOUNS, then in
\* ADJECTIVES, then in EXCLAIMS, and the first set that holds it decides, whatever
\* the draw and the chaos chance: the inflected "smurf" for VERBS or NOUNS, the
\* inflected "smurfy" for ADJECTIVES (so for "nice", which is in EXCLAIMS too), the
\* literal "Smurf!" for a word of EXCLAIMS only, whatever its casing and suffix.
C8_LexiconPriority ==
    pc = "based" =>
        LET low == lower(word)
        IN  /\ low \in VERBS \cup NOUNS => wout = apply_inflection(Smurf, word)
            /\ low \in ADJECTIVES \ (VERBS \cup NOUNS) => wout = apply_inflection(Smurfy, word)
            /\ low \in EXCLAIMS \ (ADJECTIVES \cup VERBS \cup NOUNS) => wout = SmurfBang
            /\ low = Nice => lower(wout) = Smurfy
            /\ word \in { Wow, WOW, Oops } => wout = SmurfBang

\* smurfify_base("Nice") has returned "Smurfy".
C8_Witness ==
    /\ pc = "based"
    /\ word = NiceTitle
    /\ wout = << "S","m","u","r","f","y" >>

\* ------------------------------------------------------------ the word transformer

\* C3 as stated: smurfify_word maps a listed word and its inflected and re-cased
\* forms to the substitute with the same inflection, whatever the draw: "fix" to
\* "smurf", "fixing" to "smurfing", "BROKEN" to "SMURFY".
C3_InflectedForms ==
    pc = "transformed" =>
        /\ word = Fix => wout = Smurf
        /\ word = Fixing => wout = << "s","m","u","r","f","i","n","g" >>
        /\ word = BROKEN => wout = << "S","M","U","R","F","Y" >>

\* C6: for a token of a base of word characters and hyphens followed by punctuation
\* characters, smurfify_word returns the hyphen-join of the results of smurfify_base
\* on the sub-words, followed by the punctuation of the token as it stands, never
\* deduplicated ("wow!" gives "Smurf!!"); and the token itself when no sub-word is
\* substituted.
C6_PunctuationPreserved ==
    (pc = "transformed" /\ matches(word)) =>
        LET parts == split_on(match_base(word), "-")
            punct == match_punct(word)
            subs == [ k \in DOMAIN parts |-> smurfify_base(parts[k], draws[k]) ]
            front == Len(wout) - Len(punct)
        IN  /\ Len(draws) = Len(parts)
            /\ front >= 0
            /\ SubSeq(wout, front + 1, Len(wout)) = punct
            /\ SubSeq(wout, 1, front) = join(subs, Hyphen)
            /\ subs = parts => wout = word
            /\ word = WowBang => wout = << "S","m","u","r","f","!","!" >>
            /\ word = FixBangs => wout = << "S","m","u","r","f","!","?" >>

\* smurfify_word("wow!") has returned "Smurf!!".
C6_Witness ==
    /\ pc = "transformed"
    /\ word = WowBang
    /\ wout = << "S","m","u","r","f","!","!" >>

=============================================================================
